---- MODULE Spec2Model ----
(***************************************************************************)
(* A model of nsw-weather-data: the XML pipeline of src/src/fetch_bom.py   *)
(* (parse_forecast_period, parse_bom_xml, write_csv) and the API pipeline  *)
(* of src/src/fetch_bom_api.py (search_location, fetch_daily_forecast,     *)
(* parse_forecast, fetch_forecasts, write_csv, main).                      *)
(*                                                                         *)
(* Python values are tagged records, so that None, an integer, a string    *)
(* and a dict stay distinct values: None, IntV(n), StrV(s), DictV(f).      *)
(***************************************************************************)
EXTENDS Integers, Sequences, FiniteSets, TLC

VARIABLES
    period_elem,      \* parse_forecast_period: its argument
    period_result,    \* parse_forecast_period: what the call produced
    xml_data,         \* parse_bom_xml: the parsed document (root element)
    context,          \* parse_bom_xml: number of iterparse events consumed
    forecasts,        \* parse_bom_xml: the records yielded so far, in order
    location,         \* parse_forecast: the search result it is given
    forecast_data,    \* parse_forecast: the list of daily entries it is given
    forecast,         \* parse_forecast: the LocationForecast it returned
    call,             \* search_location / fetch_daily_forecast: the call made
    response,         \* fetch_json: what the request of that call met
    outcome,          \* what the call returned, raised, requested and logged
    locations_file,   \* main: locations.txt, None when it does not exist
    output,           \* write_csv: site/forecast.csv, None when it does not exist
    pc,               \* main / write_csv: where the run is
    location_names,   \* fetch_forecasts: the names to fetch
    idx,              \* fetch_forecasts: position of the current name
    found,            \* fetch_forecasts: `location`, the result of the search
    requests,         \* the requests sent so far
    stderr,           \* the lines printed to stderr so far
    count,            \* write_csv: rows written
    exit_code,        \* the exit status of the process, None while it runs
    csv_forecasts     \* write_csv: the records its argument still holds

xml_vars == <<xml_data, context, forecasts>>
period_vars == <<period_elem, period_result>>
parse_vars == <<location, forecast_data, forecast>>
fetch_vars == <<call, response, outcome>>
batch_vars == <<locations_file, location_names, idx, found, requests, stderr,
                exit_code>>
csv_vars == <<output, pc, count, csv_forecasts>>
vars == <<period_elem, period_result, xml_data, context, forecasts,
          location, forecast_data, forecast, call, response, outcome,
          locations_file, output, pc, location_names, idx, found, requests,
          stderr, count, exit_code, csv_forecasts>>

(***************************************************************************)
(* Bounds of the model.                                                    *)
(***************************************************************************)
MaxElems == 2       \* child elements of a forecast-period (SpecPeriod)
MaxPeriods == 3     \* forecast periods of a location area (SpecXml)
MaxAreas == 2       \* areas of a multi-area document (SpecXml)
MaxEntries == 8     \* daily entries of a forecast response (SpecParse)
MaxResults == 2     \* results of a location search (SpecFetch)
MaxLines == 2       \* lines of locations.txt (SpecBatch)
MaxRecords == 2     \* records handed to write_csv (SpecCsv)

(***************************************************************************)
(* Python values.                                                          *)
(***************************************************************************)
None == [t |-> "None"]
IntV(n) == [t |-> "int", v |-> n]
StrV(s) == [t |-> "str", v |-> s]
DictV(f) == [t |-> "dict", v |-> f]
ListV(s) == [t |-> "list", v |-> s]

\* d.get(key, default)
DictGet(d, key, default) ==
    IF key \in DOMAIN d.v THEN d.v[key] ELSE default

IsNone(x) == x.t = "None"

\* bool(x): the truth value Python gives x in `if x:` / `x or ""`.
Truthy(x) ==
    CASE x.t = "None" -> FALSE
      [] x.t = "int"  -> x.v # 0
      [] x.t = "str"  -> x.v # ""
      [] x.t = "dict" -> DOMAIN x.v # {}
      [] x.t = "list" -> Len(x.v) > 0

Min2(a, b) == IF a < b THEN a ELSE b

\* s[:n]
Prefix(s, n) == SubSeq(s, 1, Min2(n, Len(s)))

Char(s, i) == SubSeq(s, i, i)

(***************************************************************************)
(* int(text) of fetch_bom.py:61,66.  The outcome is a value or the         *)
(* exception int() raises: TypeError for None, ValueError for a string     *)
(* that is no integer literal (optional surrounding whitespace, optional   *)
(* sign, digits with single underscores between them).                     *)
(***************************************************************************)
Digit == {"0", "1", "2", "3", "4", "5", "6", "7", "8", "9"}

DigitVal(c) ==
    CASE c = "0" -> 0 [] c = "1" -> 1 [] c = "2" -> 2 [] c = "3" -> 3
      [] c = "4" -> 4 [] c = "5" -> 5 [] c = "6" -> 6 [] c = "7" -> 7
      [] c = "8" -> 8 [] c = "9" -> 9

IsSpace(c) == c \in {" ", "\n", "\t"}

RECURSIVE LStrip(_)
LStrip(s) ==
    IF Len(s) > 0 /\ IsSpace(Char(s, 1)) THEN LStrip(SubSeq(s, 2, Len(s))) ELSE s

RECURSIVE RStrip(_)
RStrip(s) ==
    IF Len(s) > 0 /\ IsSpace(Char(s, Len(s)))
    THEN RStrip(SubSeq(s, 1, Len(s) - 1)) ELSE s

Strip(s) == RStrip(LStrip(s))

\* The digits of an integer literal: a digit first and last, digits and
\* single underscores between.
IsDigits(s) ==
    /\ Len(s) > 0
    /\ Char(s, 1) \in Digit
    /\ Char(s, Len(s)) \in Digit
    /\ \A i \in 1..Len(s) : Char(s, i) \in Digit \cup {"_"}
    /\ \A i \in 1..(Len(s) - 1) : ~(Char(s, i) = "_" /\ Char(s, i + 1) = "_")

RECURSIVE DigitsValue(_, _)
DigitsValue(s, acc) ==
    IF Len(s) = 0 THEN acc
    ELSE IF Char(s, 1) = "_" THEN DigitsValue(SubSeq(s, 2, Len(s)), acc)
    ELSE DigitsValue(SubSeq(s, 2, Len(s)), 10 * acc + DigitVal(Char(s, 1)))

Returned(val) == [exc |-> "", v |-> val]
Raised(e) == [exc |-> e, v |-> None]

IntOfText(text) ==
    IF text.t # "str" THEN Raised("TypeError")
    ELSE LET s == Strip(text.v)
             signed == Len(s) > 0 /\ Char(s, 1) \in {"+", "-"}
             body == IF signed THEN SubSeq(s, 2, Len(s)) ELSE s
         IN  IF ~IsDigits(body) THEN Raised("ValueError")
             ELSE IF signed /\ Char(s, 1) = "-"
                  THEN Returned(IntV(0 - DigitsValue(body, 0)))
                  ELSE Returned(IntV(DigitsValue(body, 0)))

(***************************************************************************)
(* xml.etree elements: a tag, attributes, text and children.               *)
(***************************************************************************)
Elem(tag, attrib, text, children) ==
    [tag |-> tag, attrib |-> attrib, text |-> text, children |-> children]

\* elem.get(key): the attribute, or None
ElemGet(elem, key) ==
    IF key \in DOMAIN elem.attrib THEN StrV(elem.attrib[key]) ELSE None

\* elem.get(key, default)
ElemGetOr(elem, key, default) ==
    IF key \in DOMAIN elem.attrib THEN StrV(elem.attrib[key]) ELSE default

\* elem.findall(tag): the direct children with that tag, in document order
FindAll(elem, tag) ==
    SelectSeq(elem.children, LAMBDA c : c.tag = tag)

DateLen == 10

(***************************************************************************)
(* parse_forecast_period (fetch_bom.py:43-70).                             *)
(***************************************************************************)
TempCaughtValueErrorOnly == {"ValueError"}

\* except (ValueError, TypeError): pass
TempCaught == {"ValueError", "TypeError"}

\* One iteration of the loop over the period's "element" children; st is
\* [min_temp, max_temp, exc], exc the exception that left the loop ("" none).
PeriodElementStep(st, element) ==
    LET elem_type == ElemGet(element, "type")
        r == IntOfText(element.text)
    IN  IF st.exc # "" THEN st
        ELSE IF elem_type = StrV("air_temperature_minimum")
        THEN IF r.exc = "" THEN [st EXCEPT !.min_temp = r.v]
             ELSE IF r.exc \in TempCaught THEN st
             ELSE [st EXCEPT !.exc = r.exc]
        ELSE IF elem_type = StrV("air_temperature_maximum")
        THEN IF r.exc = "" THEN [st EXCEPT !.max_temp = r.v]
             ELSE IF r.exc \in TempCaught THEN st
             ELSE [st EXCEPT !.exc = r.exc]
        ELSE st

RECURSIVE PeriodElementLoop(_, _, _)
PeriodElementLoop(elements, i, st) ==
    IF i > Len(elements) THEN st
    ELSE PeriodElementLoop(elements, i + 1, PeriodElementStep(st, elements[i]))

parse_forecast_period(elem) ==
    LET attr == ElemGet(elem, "start-time-local")
        start_date == IF Truthy(attr) THEN StrV(Prefix(attr.v, DateLen)) ELSE attr
        st == PeriodElementLoop(FindAll(elem, "element"), 1,
                                [min_temp |-> None, max_temp |-> None, exc |-> ""])
    IN  [start_date |-> start_date, min_temp |-> st.min_temp,
         max_temp |-> st.max_temp, exc |-> st.exc]

(***************************************************************************)
(* parse_bom_xml (fetch_bom.py:73-122).  iterparse(events=("end",))        *)
(* delivers every element of the document when its end tag is read, that   *)
(* is in post-order; the generator yields one record at the end of each    *)
(* area of type "location".  elem.clear() (line 122) releases the area's   *)
(* subtree after its record is built and changes no record.                *)
(***************************************************************************)
\* The end events of a sequence of sibling elements and their subtrees.
RECURSIVE PostOrderAll(_)
PostOrderAll(elems) ==
    IF Len(elems) = 0 THEN <<>>
    ELSE PostOrderAll(Head(elems).children) \o <<Head(elems)>>
             \o PostOrderAll(Tail(elems))

PostOrder(elem) == PostOrderAll(<<elem>>)

\* As ScanStep, but a later period overrides a value already selected.
ScanStepLastWins(st, period) ==
    LET p == parse_forecast_period(period)
        takeMin == ~IsNone(p.min_temp)
        takeMax == ~IsNone(p.max_temp)
    IN  [nearest_min      |-> IF takeMin THEN p.min_temp ELSE st.nearest_min,
         nearest_min_date |-> IF takeMin THEN p.start_date ELSE st.nearest_min_date,
         nearest_max      |-> IF takeMax THEN p.max_temp ELSE st.nearest_max,
         nearest_max_date |-> IF takeMax THEN p.start_date ELSE st.nearest_max_date,
         iters            |-> st.iters + 1]

\* One iteration of the loop over the area's forecast periods (lines 96-106);
\* iters counts the periods the loop has examined.
ScanStep(st, period) ==
    LET p == parse_forecast_period(period)
        takeMin == IsNone(st.nearest_min) /\ ~IsNone(p.min_temp)
        takeMax == IsNone(st.nearest_max) /\ ~IsNone(p.max_temp)
    IN  [nearest_min      |-> IF takeMin THEN p.min_temp ELSE st.nearest_min,
         nearest_min_date |-> IF takeMin THEN p.start_date ELSE st.nearest_min_date,
         nearest_max      |-> IF takeMax THEN p.max_temp ELSE st.nearest_max,
         nearest_max_date |-> IF takeMax THEN p.start_date ELSE st.nearest_max_date,
         iters            |-> st.iters + 1]

\* As ScanBreak, stopping as soon as either value is found.
ScanBreakOnEither(st) == ~IsNone(st.nearest_min) \/ ~IsNone(st.nearest_max)

\* Stop once we have both (lines 109-110)
ScanBreak(st) == ~IsNone(st.nearest_min) /\ ~IsNone(st.nearest_max)

\* The loop of lines 95-110.  The break of line 110 ends the loop after the
\* step that found the second value; the loop starts with neither value, so
\* testing it before each further period is the same loop.
RECURSIVE ScanLoop(_, _, _)
ScanLoop(periods, i, st) ==
    IF i > Len(periods) \/ ScanBreak(st) THEN st
    ELSE ScanLoop(periods, i + 1, ScanStep(st, periods[i]))

ScanArea(elem) ==
    ScanLoop(FindAll(elem, "forecast-period"), 1,
             [nearest_min |-> None, nearest_min_date |-> None,
              nearest_max |-> None, nearest_max_date |-> None, iters |-> 0])

\* The LocationForecast yielded for an area (lines 85-119)
LocationForecast(elem) ==
    LET st == ScanArea(elem)
    IN  [aac           |-> ElemGetOr(elem, "aac", StrV("")),
         description   |-> ElemGetOr(elem, "description", StrV("")),
         min_temp      |-> st.nearest_min,
         min_temp_date |-> st.nearest_min_date,
         max_temp      |-> st.nearest_max,
         max_temp_date |-> st.nearest_max_date]

\* As IsLocationArea, without the test of the type attribute.
IsAnyArea(elem) == elem.tag = "area"

\* As IsLocationArea, passing over the areas that supply no temperature.
IsLocationAreaWithTemps(elem) ==
    /\ elem.tag = "area" /\ ElemGet(elem, "type") = StrV("location")
    /\ ~IsNone(ScanArea(elem).nearest_min) \/ ~IsNone(ScanArea(elem).nearest_max)

\* line 84
IsLocationArea(elem) ==
    elem.tag = "area" /\ ElemGet(elem, "type") = StrV("location")

Events == PostOrder(xml_data)

YieldLocation ==
    /\ context < Len(Events)
    /\ IsLocationArea(Events[context + 1])
    /\ forecasts' = Append(forecasts, LocationForecast(Events[context + 1]))
    /\ context' = context + 1
    /\ UNCHANGED xml_data

SkipElement ==
    /\ context < Len(Events)
    /\ ~IsLocationArea(Events[context + 1])
    /\ context' = context + 1
    /\ UNCHANGED <<xml_data, forecasts>>

(***************************************************************************)
(* parse_forecast (fetch_bom_api.py:107-159).                              *)
(***************************************************************************)
ApiDateLen == 10

\* As NowIsMax, ignoring the label.
NowIsMaxAlways(now_data) == TRUE

\* line 120: now_data.get("now_label") == "Max"
NowIsMax(now_data) == DictGet(now_data, "now_label", None) = StrV("Max")

\* lines 114-125: today's temperatures, [today_max, today_min]
TodayTemps(today) ==
    LET direct_max == DictGet(today, "temp_max", None)
        direct_min == DictGet(today, "temp_min", None)
        now_data == DictGet(today, "now", DictV(<<>>))
    IN  IF ~Truthy(now_data)
        THEN [today_max |-> direct_max, today_min |-> direct_min]
        ELSE IF NowIsMax(now_data)
        THEN [today_max |-> DictGet(now_data, "temp_now", direct_max),
              today_min |-> DictGet(now_data, "temp_later", direct_min)]
        ELSE [today_min |-> DictGet(now_data, "temp_now", direct_min),
              today_max |-> DictGet(now_data, "temp_later", direct_max)]

\* lines 140-145: the DayForecast of one daily entry
DayForecast(day) ==
    [date     |-> StrV(Prefix(DictGet(day, "date", StrV("")).v, ApiDateLen)),
     temp_min |-> DictGet(day, "temp_min", None),
     temp_max |-> DictGet(day, "temp_max", None)]

\* lines 138-145: one DayForecast for every entry of forecast_data
DailyForecasts(entries) ==
    [i \in 1..Len(entries) |-> DayForecast(entries[i])]

parse_forecast(loc, entries) ==
    LET today == IF Len(entries) > 0 THEN entries[1] ELSE DictV(<<>>)
        temps == TodayTemps(today)
        rain_data == DictGet(today, "rain", DictV(<<>>))
        rain_amount == DictGet(rain_data, "amount", DictV(<<>>))
    IN  [t               |-> "LocationForecast",
         name            |-> DictGet(loc, "name", StrV("")),
         geohash         |-> DictGet(loc, "geohash", StrV("")),
         state           |-> DictGet(loc, "state", StrV("")),
         postcode        |-> DictGet(loc, "postcode", StrV("")),
         today_min       |-> temps.today_min,
         today_max       |-> temps.today_max,
         fire_danger     |-> DictGet(today, "fire_danger", None),
         rain_min_mm     |-> DictGet(rain_amount, "min", None),
         rain_max_mm     |-> DictGet(rain_amount, "max", None),
         rain_chance     |-> DictGet(rain_data, "chance", None),
         daily_forecasts |-> DailyForecasts(entries)]


(***************************************************************************)
(* fetch_json (fetch_bom_api.py:53-60) is the network: a call of it        *)
(* returns the decoded JSON document or raises.  urlopen raises URLError   *)
(* (HTTPError is a subclass) for a failure to connect or to send, and for  *)
(* an HTTP error status; a timeout or a closed connection while the        *)
(* response is read (lines 59-60) is raised as it is, TimeoutError or      *)
(* ConnectionError, which are no URLError.                                 *)
(***************************************************************************)
\* The exceptions `except urllib.error.URLError` catches (lines 90, 102).
URLErrorClasses == {"URLError", "HTTPError"}

\* The exceptions of a transport failure that fetch_json lets out.
TransportErrors == {"URLError", "HTTPError", "TimeoutError", "ConnectionError"}

SearchRequest(name) == [path |-> "/locations", search |-> name]
DailyRequest(geohash) ==
    [path |-> "/locations/" \o geohash \o "/forecasts/daily", search |-> ""]

\* What a call did: the value returned, the exception raised ("" none), the
\* requests sent and the lines printed to stderr.
Did(ret, exc, sent, printed) ==
    [ret |-> ret, exc |-> exc, requests |-> sent, stderr |-> printed]

UpperLetters == "ABCDEFGHIJKLMNOPQRSTUVWXYZ"
LowerLetters == "abcdefghijklmnopqrstuvwxyz"

LowerChar(c) ==
    IF \E i \in 1..Len(UpperLetters) : Char(UpperLetters, i) = c
    THEN Char(LowerLetters, CHOOSE i \in 1..Len(UpperLetters) : Char(UpperLetters, i) = c)
    ELSE c

\* s.lower()
RECURSIVE Lower(_)
Lower(s) ==
    IF Len(s) = 0 THEN ""
    ELSE LowerChar(Char(s, 1)) \o Lower(SubSeq(s, 2, Len(s)))

MinNameLen == 3

\* As TooShort, one character less.
TooShortOffByOne(name) == Len(name) < MinNameLen - 1

\* line 70
TooShort(name) == Len(name) < MinNameLen

\* As ExactMatch, finding none.
ExactMatchNever(locations, i, name_lower) == 0

\* lines 84-86: the index of the first result whose name is the query, case
\* ignored; 0 when there is none.
RECURSIVE ExactMatch(_, _, _)
ExactMatch(locations, i, name_lower) ==
    IF i > Len(locations) THEN 0
    ELSE IF Lower(DictGet(locations[i], "name", StrV("")).v) = name_lower THEN i
    ELSE ExactMatch(locations, i + 1, name_lower)

\* lines 77-89: the result chosen from a response
SelectLocation(name, data) ==
    LET locations == DictGet(data, "data", ListV(<<>>))
        exact == ExactMatch(locations.v, 1, Lower(name))
    IN  IF ~Truthy(locations) THEN None
        ELSE IF exact > 0 THEN locations.v[exact]
        ELSE locations.v[1]

\* search_location (lines 63-92); resp is what fetch_json does when called.
search_location(name, resp) ==
    IF TooShort(name) THEN Did(None, "", <<>>, <<>>)
    ELSE IF resp.exc = ""
    THEN Did(SelectLocation(name, resp.v), "", <<SearchRequest(name)>>, <<>>)
    ELSE IF resp.exc \in URLErrorClasses
    THEN Did(None, "", <<SearchRequest(name)>>,
             <<"Error searching for '" \o name \o "': " \o resp.exc>>)
    ELSE Did(None, resp.exc, <<SearchRequest(name)>>, <<>>)

\* fetch_daily_forecast (lines 95-104)
fetch_daily_forecast(geohash, resp) ==
    IF resp.exc = ""
    THEN Did(DictGet(resp.v, "data", ListV(<<>>)), "", <<DailyRequest(geohash)>>, <<>>)
    ELSE IF resp.exc \in URLErrorClasses
    THEN Did(ListV(<<>>), "", <<DailyRequest(geohash)>>,
             <<"Error fetching forecast for '" \o geohash \o "': " \o resp.exc>>)
    ELSE Did(ListV(<<>>), resp.exc, <<DailyRequest(geohash)>>, <<>>)


(***************************************************************************)
(* write_csv (fetch_bom_api.py:191-246).  A row is the list handed to      *)
(* writer.writerow; the file holds the text csv.writer makes of each cell. *)
(***************************************************************************)
HeaderDays == 7
RowDays == 7

\* As OrEmpty, with the test `value or ""`: the number 0 is dropped too.
OrEmptyDropsZero(x) == IF Truthy(x) THEN x ELSE StrV("")

\* value if value is not None else ""
OrEmpty(x) == IF IsNone(x) THEN StrV("") ELSE x

\* value or ""
OrEmptyIfFalsy(x) == IF Truthy(x) THEN x ELSE StrV("")

\* lines 212-213
RECURSIVE HeaderDayColumns(_)
HeaderDayColumns(i) ==
    IF i >= HeaderDays THEN <<>>
    ELSE <<StrV("day" \o ToString(i) \o "_date"),
           StrV("day" \o ToString(i) \o "_min_c"),
           StrV("day" \o ToString(i) \o "_max_c")>> \o HeaderDayColumns(i + 1)

\* lines 199-213
CsvHeader ==
    <<StrV("location"), StrV("state"), StrV("postcode"), StrV("geohash"),
      StrV("today_min_c"), StrV("today_max_c"), StrV("fire_danger"),
      StrV("rain_min_mm"), StrV("rain_max_mm"), StrV("rain_chance_pct")>>
    \o HeaderDayColumns(0)

\* As RowDayColumns, leaving out the slots of the days a record lacks.
RECURSIVE RowDayColumnsNoPadding(_, _)
RowDayColumnsNoPadding(days, i) ==
    IF i >= RowDays THEN <<>>
    ELSE IF i < Len(days)
    THEN <<days[i + 1].date, OrEmpty(days[i + 1].temp_min),
           OrEmpty(days[i + 1].temp_max)>> \o RowDayColumnsNoPadding(days, i + 1)
    ELSE RowDayColumnsNoPadding(days, i + 1)

\* lines 232-241
RECURSIVE RowDayColumns(_, _)
RowDayColumns(days, i) ==
    IF i >= RowDays THEN <<>>
    ELSE IF i < Len(days)
    THEN <<days[i + 1].date, OrEmpty(days[i + 1].temp_min),
           OrEmpty(days[i + 1].temp_max)>> \o RowDayColumns(days, i + 1)
    ELSE <<StrV(""), StrV(""), StrV("")>> \o RowDayColumns(days, i + 1)

\* lines 218-241
CsvRow(f) ==
    <<f.name, f.state, f.postcode, f.geohash,
      OrEmpty(f.today_min), OrEmpty(f.today_max), OrEmptyIfFalsy(f.fire_danger),
      OrEmpty(f.rain_min_mm), OrEmpty(f.rain_max_mm), OrEmpty(f.rain_chance)>>
    \o RowDayColumns(f.daily_forecasts, 0)

\* The text csv.writer writes for a cell: "" for None, str(value) otherwise.
CellText(x) ==
    CASE x.t = "None" -> ""
      [] x.t = "int"  -> ToString(x.v)
      [] x.t = "str"  -> x.v

\* As WriteRow, on a file truncated before every row.
WriteRowTruncating(file, row) == <<[i \in 1..Len(row) |-> CellText(row[i])]>>

\* writer.writerow(row)
WriteRow(file, row) == Append(file, [i \in 1..Len(row) |-> CellText(row[i])])

(***************************************************************************)
(* write_csv (fetch_bom.py:125-150).                                       *)
(***************************************************************************)
\* lines 130-137
BomCsvHeader ==
    <<StrV("aac"), StrV("location"), StrV("min_temp_celsius"), StrV("min_temp_date"),
      StrV("max_temp_celsius"), StrV("max_temp_date")>>

\* lines 140-147
BomCsvRow(f) ==
    <<f.aac, f.description,
      OrEmpty(f.min_temp), OrEmptyIfFalsy(f.min_temp_date),
      OrEmpty(f.max_temp), OrEmptyIfFalsy(f.max_temp_date)>>

(***************************************************************************)
(* read_locations (fetch_bom_api.py:162-165).                              *)
(***************************************************************************)
\* The lines of a text, without their line ends; cur is the line begun.
RECURSIVE SplitLines(_, _)
SplitLines(text, cur) ==
    IF Len(text) = 0 THEN (IF cur = "" THEN <<>> ELSE <<cur>>)
    ELSE IF Char(text, 1) = "\n"
    THEN <<cur>> \o SplitLines(SubSeq(text, 2, Len(text)), "")
    ELSE SplitLines(SubSeq(text, 2, Len(text)), cur \o Char(text, 1))

\* As StripAll, with the lines left as they are.
StripNone(lines) == lines

StripAll(lines) == [i \in 1..Len(lines) |-> Strip(lines[i])]

read_locations(text) ==
    SelectSeq(StripAll(SplitLines(text, "")), LAMBDA line : line # "")


(***************************************************************************)
(* Inputs.                                                                 *)
(***************************************************************************)
SeqsUpTo(S, n) == UNION {[1..k -> S] : k \in 0..n}

NoAttrib == <<>>

Element(type, text) == Elem("element", ("type" :> type), text, <<>>)

Period(start, elements) ==
    Elem("forecast-period", ("start-time-local" :> start), None, elements)

TempTypes == {"air_temperature_minimum", "air_temperature_maximum"}

TextPool ==
    {None, StrV("21"), StrV("invalid"), StrV("0"), StrV("-3"), StrV(" 7\n")}

ElementPool ==
    {Element(ty, tx) : ty \in TempTypes, tx \in TextPool}
    \cup {Element("forecast_icon_code", StrV("1")),
          Elem("element", NoAttrib, StrV("5"), <<>>),
          Elem("text", ("type" :> "air_temperature_minimum"), StrV("9"), <<>>)}

StartPool ==
    {NoAttrib,
     ("start-time-local" :> ""),
     ("start-time-local" :> "2026"),
     ("start-time-local" :> "2026-01-08T10:00:00+11:00")}

PeriodInputs ==
    {Elem("forecast-period", a, None, es) :
        a \in StartPool, es \in SeqsUpTo(ElementPool, MaxElems)}

\* Sample periods of an area: the periods of tests/test_fetch_bom.py and
\* periods with a bad text, no temperature and no start time.
PMax1 == Period("2026-01-08T10:00:00+11:00",
                <<Element("forecast_icon_code", StrV("1")),
                  Element("air_temperature_maximum", StrV("33"))>>)
PBoth2 == Period("2026-01-09T00:00:00+11:00",
                 <<Element("air_temperature_minimum", StrV("21")),
                   Element("air_temperature_maximum", StrV("35"))>>)
PMin3 == Period("2026-01-10T00:00:00+11:00",
                <<Element("air_temperature_minimum", StrV("19"))>>)
PNone4 == Period("2026-01-11T00:00:00+11:00",
                 <<Element("forecast_icon_code", StrV("1"))>>)
PBad5 == Period("2026-01-12T00:00:00+11:00",
                <<Element("air_temperature_maximum", StrV("invalid")),
                  Element("air_temperature_minimum", None)>>)
PNoStart6 == Elem("forecast-period", NoAttrib, None,
                  <<Element("air_temperature_maximum", StrV("0"))>>)

PeriodPool == {PMax1, PBoth2, PMin3, PNone4, PBad5, PNoStart6}

Area(aac, description, type, periods) ==
    Elem("area", ("aac" :> aac) @@ ("description" :> description) @@ ("type" :> type),
         None, periods)

AreaPool ==
    {Area("NSW_FA001", "New South Wales", "region", <<>>),
     Area("NSW_ME001", "Metropolitan", "metropolitan", <<PBoth2>>),
     Area("NSW_PT131", "Sydney", "location", <<PMax1, PBoth2>>),
     Area("NSW_PT999", "Mystery Location", "location", <<PNone4>>),
     Elem("area", ("aac" :> "NSW_XX000"), None, <<PMin3, PMax1>>)}

Product(areas) ==
    Elem("product", ("version" :> "1.7"), None,
         <<Elem("forecast", NoAttrib, None, areas)>>)

\* Documents with one location area and every sequence of sample periods,
\* and documents with every sequence of sample areas.
ScanDocs ==
    {Product(<<Area("NSW_PT082", "Liverpool", "location", ps)>>) :
        ps \in SeqsUpTo(PeriodPool, MaxPeriods)}

MultiDocs == {Product(areas) : areas \in SeqsUpTo(AreaPool, MaxAreas)}

\* A dict entry, or none when the key is absent.
Absent == [t |-> "absent"]
Entry(key, x) == IF x.t = "absent" THEN <<>> ELSE (key :> x)

LOCATION_DATA ==
    DictV([geohash |-> StrV("r64c839"), id |-> StrV("Lithgow-r64c839"),
           name |-> StrV("Lithgow"), postcode |-> StrV("2790"),
           state |-> StrV("NSW")])

NowPool ==
    {Absent, None}
    \cup {DictV(Entry("now_label", l) @@ Entry("temp_now", n) @@ Entry("temp_later", m)) :
            l \in {Absent, StrV("Max"), StrV("Min")},
            n \in {Absent, None, IntV(18)},
            m \in {Absent, None, IntV(12)}}

Amount(min, max, lower, upper) ==
    DictV(Entry("min", min) @@ Entry("max", max)
          @@ Entry("lower_range", lower) @@ Entry("upper_range", upper)
          @@ Entry("units", StrV("mm")))

\* [rain, fire_danger] of today's entry
RainPool ==
    {[rain |-> Absent, fire |-> Absent],
     [rain |-> DictV(<<>>), fire |-> None],
     [rain |-> DictV(("amount" :> Amount(IntV(10), IntV(30), IntV(1), IntV(30)))
                     @@ ("chance" :> IntV(90))), fire |-> StrV("Moderate")],
     [rain |-> DictV(("amount" :> Amount(Absent, Absent, IntV(0), IntV(0)))),
      fire |-> StrV("Moderate")],
     [rain |-> DictV(("amount" :> Amount(IntV(0), IntV(5), IntV(0), IntV(5)))
                     @@ ("chance" :> IntV(40))), fire |-> StrV("High")],
     [rain |-> DictV(("amount" :> Amount(None, None, None, None))
                     @@ ("chance" :> None)), fire |-> None]}

TodayPool ==
    {DictV(("date" :> StrV("2026-01-16T13:00:00Z"))
           @@ Entry("temp_max", tmax) @@ Entry("temp_min", tmin)
           @@ Entry("now", now) @@ Entry("rain", r.rain)
           @@ Entry("fire_danger", r.fire)) :
        tmax \in {Absent, None, IntV(30)},
        tmin \in {Absent, None, IntV(5)},
        now \in NowPool,
        r \in RainPool}

\* The k-th day after today
FollowingDay(k) ==
    DictV([date |-> StrV("2026-01-" \o ToString(16 + k) \o "T13:00:00Z"),
           temp_max |-> IntV(16 + k), temp_min |-> IntV(10 + k),
           fire_danger |-> StrV("Moderate")])

\* FORECAST_RESPONSE["data"][0] of tests/test_fetch_bom_api.py
FirstDay ==
    DictV([date |-> StrV("2026-01-16T13:00:00Z"), temp_max |-> IntV(18),
           temp_min |-> None, fire_danger |-> StrV("Moderate"),
           rain |-> DictV(("amount" :> Amount(IntV(10), IntV(30), IntV(1), IntV(30)))
                          @@ ("chance" :> IntV(90))),
           now |-> DictV([is_night |-> [t |-> "bool", v |-> FALSE],
                          now_label |-> StrV("Max"),
                          later_label |-> StrV("Overnight min"),
                          temp_now |-> IntV(18), temp_later |-> IntV(12)])])

\* n daily entries, today first
Days(n) == [i \in 1..n |-> IF i = 1 THEN FirstDay ELSE FollowingDay(i - 1)]

ForecastDataInputs ==
    {<<today>> : today \in TodayPool} \cup {Days(n) : n \in 0..MaxEntries}

Loc(name, geohash, state) ==
    DictV(Entry("name", name) @@ Entry("geohash", geohash) @@ ("state" :> StrV(state)))

LocPool ==
    {Loc(StrV("Sydney CBD"), StrV("abc"), "NSW"),
     Loc(StrV("Sydney Airport"), StrV("def"), "NSW"),
     Loc(StrV("SYDNEY"), StrV("r3gx2f"), "NSW"),
     Loc(StrV("sydney"), StrV(""), "VIC"),
     Loc(Absent, StrV("xyz"), "NSW")}

NamePool == {"", "AB", "Syd", "Sydney", "sydney", "NonexistentPlace"}

GeohashPool == {"r64c839", "abc"}

Failures == {Raised(e) : e \in TransportErrors}

SearchResponses ==
    {Returned(DictV(("data" :> ListV(ls)))) : ls \in SeqsUpTo(LocPool, MaxResults)}
    \cup {Returned(DictV(<<>>)), Returned(DictV(("data" :> None)))}
    \cup Failures

DailyResponses ==
    {Returned(DictV(("data" :> ListV(Days(n))))) : n \in 0..3}
    \cup {Returned(DictV(<<>>)), Returned(DictV(("data" :> None)))}
    \cup Failures

\* The records handed to write_csv: with no daily forecast, with fewer than,
\* exactly and more than a week of them, and one with nothing but a name.
RecordPool ==
    {parse_forecast(LOCATION_DATA, Days(n)) : n \in 0..MaxEntries}
    \cup {parse_forecast(DictV(("name" :> StrV("Test"))),
                         <<DictV(("temp_max" :> IntV(0)))>>)}

\* The records parse_bom_xml hands to the XML write_csv: the record of a
\* location area with no period, with each sample period, and with two.
BomRecordPool ==
    {LocationForecast(Area("NSW_PT131", "Sydney", "location", ps)) :
        ps \in {<<>>, <<PMax1, PBoth2>>} \cup {<<p>> : p \in PeriodPool}}

LinePool == {"Sydney", "AB", "  Perth ", "", " \t"}

RECURSIVE JoinLines(_)
JoinLines(lines) ==
    IF Len(lines) = 0 THEN ""
    ELSE Head(lines) \o "\n" \o JoinLines(Tail(lines))

\* locations.txt: lines ended by a newline, and the same with the last
\* newline missing.
FilePool ==
    {JoinLines(ls) : ls \in SeqsUpTo(LinePool, MaxLines)}
    \cup {Prefix(JoinLines(ls), Len(JoinLines(ls)) - 1) :
            ls \in SeqsUpTo(LinePool, MaxLines) \ {<<>>}}

\* What the network does with a request of the batch.
BatchSearchResponses ==
    {Returned(DictV(("data" :> ListV(<<Loc(StrV("Sydney CBD"), StrV("abc"), "NSW"),
                                       Loc(StrV("Sydney"), StrV("r3gx2f"), "NSW")>>)))),
     Returned(DictV(("data" :> ListV(<<Loc(StrV("Perth"), Absent, "WA")>>)))),
     Returned(DictV(("data" :> ListV(<<>>)))),
     Raised("URLError"), Raised("TimeoutError")}

BatchDailyResponses ==
    {Returned(DictV(("data" :> ListV(Days(2))))),
     Returned(DictV(("data" :> ListV(<<>>)))),
     Raised("URLError"), Raised("TimeoutError")}

\* site/forecast.csv as an earlier run left it
StaleOutput == ListV(<<<<"stale">>>>)

PeriodIdle == period_elem = None /\ period_result = None
XmlIdle == xml_data = None /\ context = 0 /\ forecasts = <<>>
ParseIdle == location = None /\ forecast_data = <<>> /\ forecast = None
FetchIdle == call = None /\ response = None /\ outcome = None
BatchIdle ==
    /\ locations_file = None /\ location_names = <<>> /\ idx = 0 /\ found = None
    /\ requests = <<>> /\ stderr = <<>> /\ exit_code = None
CsvIdle == output = None /\ pc = "" /\ count = 0 /\ csv_forecasts = <<>>

(***************************************************************************)
(* SpecPeriod: parse_forecast_period applied to a period element.          *)
(***************************************************************************)
PeriodInit ==
    /\ period_elem \in PeriodInputs
    /\ period_result = None
    /\ XmlIdle /\ ParseIdle /\ FetchIdle /\ BatchIdle /\ CsvIdle

ParsePeriod ==
    /\ IsNone(period_result)
    /\ period_result' = [t |-> "result"] @@ parse_forecast_period(period_elem)
    /\ UNCHANGED period_elem

PeriodNext == ParsePeriod /\ UNCHANGED <<xml_vars, parse_vars, fetch_vars, batch_vars, csv_vars>>

SpecPeriod == PeriodInit /\ [][PeriodNext]_vars

(***************************************************************************)
(* SpecXml: parse_bom_xml consumed to exhaustion.                          *)
(***************************************************************************)
XmlInit ==
    /\ xml_data \in ScanDocs \cup MultiDocs
    /\ context = 0
    /\ forecasts = <<>>
    /\ PeriodIdle /\ ParseIdle /\ FetchIdle /\ BatchIdle /\ CsvIdle

XmlNext ==
    \/ YieldLocation /\ UNCHANGED <<period_vars, parse_vars, fetch_vars, batch_vars, csv_vars>>
    \/ SkipElement /\ UNCHANGED <<period_vars, parse_vars, fetch_vars, batch_vars, csv_vars>>

SpecXml == XmlInit /\ [][XmlNext]_vars

(***************************************************************************)
(* SpecParse: parse_forecast applied to a search result and a list of      *)
(* daily entries.                                                          *)
(***************************************************************************)
ParseInit ==
    /\ location = LOCATION_DATA
    /\ forecast_data \in ForecastDataInputs
    /\ forecast = None
    /\ PeriodIdle /\ XmlIdle /\ FetchIdle /\ BatchIdle /\ CsvIdle

ParseForecast ==
    /\ IsNone(forecast)
    /\ forecast' = parse_forecast(location, forecast_data)
    /\ UNCHANGED <<location, forecast_data>>

ParseNext == ParseForecast /\ UNCHANGED <<period_vars, xml_vars, fetch_vars, batch_vars, csv_vars>>

SpecParse == ParseInit /\ [][ParseNext]_vars

(***************************************************************************)
(* SpecFetch: one call of search_location or of fetch_daily_forecast, and  *)
(* what the network does with its request.                                 *)
(***************************************************************************)
FetchInit ==
    /\ call \in {[fn |-> "search_location", arg |-> n] : n \in NamePool}
            \cup {[fn |-> "fetch_daily_forecast", arg |-> g] : g \in GeohashPool}
    /\ response = None
    /\ outcome = None
    /\ PeriodIdle /\ XmlIdle /\ ParseIdle /\ BatchIdle /\ CsvIdle

SearchLocation ==
    /\ IsNone(outcome)
    /\ call.fn = "search_location"
    /\ \E resp \in SearchResponses :
          /\ response' = [t |-> "response"] @@ resp
          /\ outcome' = [t |-> "outcome"] @@ search_location(call.arg, resp)
    /\ UNCHANGED call

FetchDailyForecast ==
    /\ IsNone(outcome)
    /\ call.fn = "fetch_daily_forecast"
    /\ \E resp \in DailyResponses :
          /\ response' = [t |-> "response"] @@ resp
          /\ outcome' = [t |-> "outcome"] @@ fetch_daily_forecast(call.arg, resp)
    /\ UNCHANGED call

FetchNext ==
    \/ SearchLocation /\ UNCHANGED <<period_vars, xml_vars, parse_vars, batch_vars, csv_vars>>
    \/ FetchDailyForecast /\ UNCHANGED <<period_vars, xml_vars, parse_vars, batch_vars, csv_vars>>

SpecFetch == FetchInit /\ [][FetchNext]_vars

(***************************************************************************)
(* SpecCsv: write_csv (fetch_bom_api.py:191-246) handed a list of records. *)
(***************************************************************************)
CsvInit ==
    /\ csv_forecasts \in SeqsUpTo(RecordPool, MaxRecords)
    /\ output \in {None, StaleOutput}
    /\ pc = "write_csv"
    /\ count = 0
    /\ PeriodIdle /\ XmlIdle /\ ParseIdle /\ FetchIdle /\ BatchIdle

\* lines 193-215: open(output_path, "w") and the header row
CsvOpen ==
    /\ pc = "write_csv"
    /\ output' = ListV(WriteRow(<<>>, CsvHeader))
    /\ count' = 0
    /\ pc' = "rows"

\* lines 217-244: the row of the next record
CsvWriteRow ==
    /\ pc = "rows"
    /\ Len(csv_forecasts) > 0
    /\ output' = ListV(WriteRow(output.v, CsvRow(Head(csv_forecasts))))
    /\ count' = count + 1
    /\ csv_forecasts' = Tail(csv_forecasts)
    /\ pc' = "rows"

\* line 246: the records are exhausted, the file is closed
CsvReturn ==
    /\ pc = "rows"
    /\ Len(csv_forecasts) = 0
    /\ pc' = "returned"
    /\ UNCHANGED <<output, count, csv_forecasts>>

CsvNext ==
    \/ CsvOpen /\ UNCHANGED <<csv_forecasts, period_vars, xml_vars, parse_vars, fetch_vars, batch_vars>>
    \/ CsvWriteRow /\ UNCHANGED <<period_vars, xml_vars, parse_vars, fetch_vars, batch_vars>>
    \/ CsvReturn /\ UNCHANGED <<period_vars, xml_vars, parse_vars, fetch_vars, batch_vars>>

SpecCsv == CsvInit /\ [][CsvNext]_vars

(***************************************************************************)
(* SpecWriters: either write_csv, of fetch_bom.py (pc "bom_...") or of     *)
(* fetch_bom_api.py, consuming an iterator of records.                     *)
(***************************************************************************)
BomCsvInit ==
    /\ csv_forecasts \in SeqsUpTo(BomRecordPool, MaxRecords)
    /\ output \in {None, StaleOutput}
    /\ pc = "bom_write_csv"
    /\ count = 0
    /\ PeriodIdle /\ XmlIdle /\ ParseIdle /\ FetchIdle /\ BatchIdle

\* fetch_bom.py lines 127-137: open(output_path, "w") and the header row
BomCsvOpen ==
    /\ pc = "bom_write_csv"
    /\ output' = ListV(WriteRow(<<>>, BomCsvHeader))
    /\ count' = 0
    /\ pc' = "bom_rows"

\* fetch_bom.py lines 139-148: the row of the next record
BomCsvWriteRow ==
    /\ pc = "bom_rows"
    /\ Len(csv_forecasts) > 0
    /\ output' = ListV(WriteRow(output.v, BomCsvRow(Head(csv_forecasts))))
    /\ count' = count + 1
    /\ csv_forecasts' = Tail(csv_forecasts)
    /\ pc' = "bom_rows"

\* fetch_bom.py line 150
BomCsvReturn ==
    /\ pc = "bom_rows"
    /\ Len(csv_forecasts) = 0
    /\ pc' = "bom_returned"
    /\ UNCHANGED <<output, count, csv_forecasts>>

WritersInit == CsvInit \/ BomCsvInit

WritersNext ==
    \/ CsvOpen /\ UNCHANGED <<csv_forecasts, period_vars, xml_vars, parse_vars, fetch_vars, batch_vars>>
    \/ CsvWriteRow /\ UNCHANGED <<period_vars, xml_vars, parse_vars, fetch_vars, batch_vars>>
    \/ CsvReturn /\ UNCHANGED <<period_vars, xml_vars, parse_vars, fetch_vars, batch_vars>>
    \/ BomCsvOpen /\ UNCHANGED <<csv_forecasts, period_vars, xml_vars, parse_vars, fetch_vars, batch_vars>>
    \/ BomCsvWriteRow /\ UNCHANGED <<period_vars, xml_vars, parse_vars, fetch_vars, batch_vars>>
    \/ BomCsvReturn /\ UNCHANGED <<period_vars, xml_vars, parse_vars, fetch_vars, batch_vars>>

SpecWriters == WritersInit /\ [][WritersNext]_vars

(***************************************************************************)
(* SpecBatch: main (fetch_bom_api.py:249-267).  fetch_forecasts is a       *)
(* generator: write_csv opens the file and writes the header before the    *)
(* first name is searched, and writes a record's row as soon as it is      *)
(* yielded.  An exception nothing catches leaves main with a traceback and *)
(* exit status 1; the `with` of write_csv closes the file with the rows    *)
(* written so far.                                                         *)
(***************************************************************************)
BatchInit ==
    /\ locations_file \in {None} \cup {StrV(text) : text \in FilePool}
    /\ output \in {None, StaleOutput}
    /\ pc = "main"
    /\ location_names = <<>> /\ idx = 0 /\ found = None
    /\ requests = <<>> /\ stderr = <<>> /\ count = 0 /\ exit_code = None
    /\ csv_forecasts = <<>>
    /\ PeriodIdle /\ XmlIdle /\ ParseIdle /\ FetchIdle

\* lines 254-256: locations.txt does not exist
MainNoLocationsFile ==
    /\ pc = "main"
    /\ IsNone(locations_file)
    /\ stderr' = Append(stderr, "Error: locations.txt not found")
    /\ exit_code' = IntV(1)
    /\ pc' = "exit"
    /\ UNCHANGED <<locations_file, output, location_names, idx, found, requests, count>>

\* lines 258-263: read_locations; fetch_forecasts(...) only makes the generator
MainReadLocations ==
    /\ pc = "main"
    /\ ~IsNone(locations_file)
    /\ location_names' = read_locations(locations_file.v)
    /\ stderr' = stderr \o <<"Reading locations from locations.txt...",
                             "Found " \o ToString(Len(read_locations(locations_file.v)))
                                 \o " locations",
                             "Fetching forecasts...">>
    /\ idx' = 1
    /\ pc' = "write_csv"
    /\ UNCHANGED <<locations_file, output, found, requests, count, exit_code>>

\* lines 193-215: write_csv opens the file and writes the header
WriteCsvOpen ==
    /\ pc = "write_csv"
    /\ output' = ListV(WriteRow(<<>>, CsvHeader))
    /\ count' = 0
    /\ pc' = "fetch_forecasts"
    /\ UNCHANGED <<locations_file, location_names, idx, found, requests, stderr, exit_code>>

Uncaught(exc) == "Traceback (most recent call last): " \o exc

\* lines 170-181: the search of the next name and the test of its geohash
ResolveName ==
    /\ pc = "fetch_forecasts"
    /\ idx <= Len(location_names)
    /\ \E resp \in BatchSearchResponses :
          LET name == location_names[idx]
              r == search_location(name, resp)
              log == stderr \o <<"Fetching " \o name \o "...">> \o r.stderr
          IN  /\ requests' = requests \o r.requests
              /\ IF r.exc # ""
                 THEN /\ stderr' = Append(log, Uncaught(r.exc))
                      /\ exit_code' = IntV(1)
                      /\ pc' = "crashed"
                      /\ UNCHANGED <<idx, found>>
                 ELSE IF ~Truthy(r.ret)
                 THEN /\ stderr' = Append(log, "  Warning: Location '" \o name \o "' not found")
                      /\ idx' = idx + 1
                      /\ UNCHANGED <<found, pc, exit_code>>
                 ELSE IF ~Truthy(DictGet(r.ret, "geohash", None))
                 THEN /\ stderr' = Append(log, "  Warning: No geohash for '" \o name \o "'")
                      /\ idx' = idx + 1
                      /\ found' = r.ret
                      /\ UNCHANGED <<pc, exit_code>>
                 ELSE /\ stderr' = log
                      /\ found' = r.ret
                      /\ pc' = "fetch_daily_forecast"
                      /\ UNCHANGED <<idx, exit_code>>
    /\ UNCHANGED <<locations_file, output, location_names, count>>

\* lines 183-188 and 217-244: the forecast of the name, its record and its row
FetchAndWrite ==
    /\ pc = "fetch_daily_forecast"
    /\ \E resp \in BatchDailyResponses :
          LET name == location_names[idx]
              r == fetch_daily_forecast(found.v["geohash"].v, resp)
          IN  /\ requests' = requests \o r.requests
              /\ IF r.exc # ""
                 THEN /\ stderr' = Append(stderr \o r.stderr, Uncaught(r.exc))
                      /\ exit_code' = IntV(1)
                      /\ pc' = "crashed"
                      /\ UNCHANGED <<idx, output, count>>
                 ELSE IF ~Truthy(r.ret)
                 THEN /\ stderr' = Append(stderr \o r.stderr,
                                          "  Warning: No forecast data for '" \o name \o "'")
                      /\ idx' = idx + 1
                      /\ pc' = "fetch_forecasts"
                      /\ UNCHANGED <<output, count, exit_code>>
                 ELSE /\ output' = ListV(WriteRow(output.v, CsvRow(parse_forecast(found, r.ret.v))))
                      /\ count' = count + 1
                      /\ idx' = idx + 1
                      /\ pc' = "fetch_forecasts"
                      /\ UNCHANGED <<stderr, exit_code>>
    /\ UNCHANGED <<locations_file, location_names, found>>

\* lines 246 and 266-267: the names are exhausted
MainDone ==
    /\ pc = "fetch_forecasts"
    /\ idx > Len(location_names)
    /\ stderr' = Append(stderr, "Done! Wrote " \o ToString(count)
                                    \o " locations to site/forecast.csv")
    /\ exit_code' = IntV(0)
    /\ pc' = "exit"
    /\ UNCHANGED <<locations_file, output, location_names, idx, found, requests, count>>

BatchNext ==
    \/ MainNoLocationsFile /\ UNCHANGED <<csv_forecasts, period_vars, xml_vars, parse_vars, fetch_vars>>
    \/ MainReadLocations /\ UNCHANGED <<csv_forecasts, period_vars, xml_vars, parse_vars, fetch_vars>>
    \/ WriteCsvOpen /\ UNCHANGED <<csv_forecasts, period_vars, xml_vars, parse_vars, fetch_vars>>
    \/ ResolveName /\ UNCHANGED <<csv_forecasts, period_vars, xml_vars, parse_vars, fetch_vars>>
    \/ FetchAndWrite /\ UNCHANGED <<csv_forecasts, period_vars, xml_vars, parse_vars, fetch_vars>>
    \/ MainDone /\ UNCHANGED <<csv_forecasts, period_vars, xml_vars, parse_vars, fetch_vars>>

SpecBatch == BatchInit /\ [][BatchNext]_vars

(***************************************************************************)
(* Claims about the XML pipeline.                                          *)
(***************************************************************************)
\* The areas of type "location" among the events consumed so far, in order.
AreasSeen ==
    SelectSeq(SubSeq(Events, 1, context),
              LAMBDA e : e.tag = "area" /\ "type" \in DOMAIN e.attrib
                                        /\ e.attrib["type"] = "location")

ParsedPeriods(area) ==
    LET ps == FindAll(area, "forecast-period")
    IN  [i \in 1..Len(ps) |-> parse_forecast_period(ps[i])]

Least(S) == CHOOSE i \in S : \A j \in S : i <= j

DefinesMin(area) == {i \in DOMAIN ParsedPeriods(area) : ~IsNone(ParsedPeriods(area)[i].min_temp)}
DefinesMax(area) == {i \in DOMAIN ParsedPeriods(area) : ~IsNone(ParsedPeriods(area)[i].max_temp)}

FirstWins(r, area) ==
    /\ DefinesMin(area) # {} =>
          LET p == ParsedPeriods(area)[Least(DefinesMin(area))]
          IN  r.min_temp = p.min_temp /\ r.min_temp_date = p.start_date
    /\ DefinesMax(area) # {} =>
          LET p == ParsedPeriods(area)[Least(DefinesMax(area))]
          IN  r.max_temp = p.max_temp /\ r.max_temp_date = p.start_date

\* C1: the record of every location area has the minimum and its date of the
\* first period (in document order) that defines a minimum, and the maximum
\* and its date of the first period that defines a maximum, independently.
C1_FirstPeriodWins ==
    /\ Len(forecasts) = Len(AreasSeen)
    /\ \A k \in DOMAIN forecasts : FirstWins(forecasts[k], AreasSeen[k])

\* C1 witness: a record whose maximum comes from the first period and whose
\* minimum comes from a later period that defines a maximum of its own.
C1_Witness ==
    /\ context = Len(Events)
    /\ \E k \in DOMAIN forecasts :
          /\ DefinesMin(AreasSeen[k]) # {} /\ DefinesMax(AreasSeen[k]) # {}
          /\ Least(DefinesMax(AreasSeen[k])) < Least(DefinesMin(AreasSeen[k]))
          /\ Least(DefinesMin(AreasSeen[k])) \in DefinesMax(AreasSeen[k])
          /\ forecasts[k].max_temp = IntV(33)
          /\ forecasts[k].max_temp_date = StrV("2026-01-08")
          /\ forecasts[k].min_temp = IntV(21)
          /\ forecasts[k].min_temp_date = StrV("2026-01-09")

\* The area elements consumed so far whose type is not "location".
OtherAreasSeen ==
    {j \in 1..context :
        /\ Events[j].tag = "area"
        /\ ~("type" \in DOMAIN Events[j].attrib /\ Events[j].attrib["type"] = "location")}

\* C2: no yielded record comes from an area whose type is not "location",
\* wherever that area stands among the areas of the document.
C2_OnlyLocationAreas ==
    \A k \in DOMAIN forecasts : \A j \in OtherAreasSeen :
        forecasts[k].aac # ElemGetOr(Events[j], "aac", StrV(""))

\* C2 witness: the whole document is consumed, a non-location area with
\* forecast periods followed a location area, and only the location area
\* has a record.
C2_Witness ==
    /\ context = Len(Events)
    /\ Len(forecasts) = 1
    /\ \E j \in OtherAreasSeen : \E i \in 1..(j - 1) :
          /\ IsLocationArea(Events[i])
          /\ FindAll(Events[j], "forecast-period") # <<>>

(***************************************************************************)
(* Claims about parse_forecast_period.                                     *)
(***************************************************************************)
Parsed == ~IsNone(period_result)

OfType(e, ty) ==
    e.tag = "element" /\ "type" \in DOMAIN e.attrib /\ e.attrib["type"] = ty

Coerces(e) == IntOfText(e.text).exc = ""

\* The period has an element of type ty whose text is no integer.
HasBadText(elem, ty) ==
    \E i \in DOMAIN elem.children :
        OfType(elem.children[i], ty) /\ ~Coerces(elem.children[i])

\* The period has an element of type ty whose text is an integer.
HasGoodText(elem, ty) ==
    \E i \in DOMAIN elem.children :
        OfType(elem.children[i], ty) /\ Coerces(elem.children[i])

\* The period without its elements of type ty whose text is no integer.
WithoutBadText(elem, ty) ==
    [elem EXCEPT !.children =
        SelectSeq(@, LAMBDA e : ~(OfType(e, ty) /\ ~Coerces(e)))]

TempField(res, ty) ==
    IF ty = "air_temperature_minimum" THEN res.min_temp ELSE res.max_temp

OtherType(ty) ==
    IF ty = "air_temperature_minimum"
    THEN "air_temperature_maximum" ELSE "air_temperature_minimum"

SameAsWithout(ty) ==
    LET ref == parse_forecast_period(WithoutBadText(period_elem, ty))
    IN  /\ period_result.min_temp = ref.min_temp
        /\ period_result.max_temp = ref.max_temp
        /\ period_result.start_date = ref.start_date

\* C3 as stated: an element of a temperature type with a text that is no
\* integer makes that temperature absent, raises nothing, and leaves the
\* other temperature and the date as they are.
C3_BadTextGivesAbsent ==
    Parsed => \A ty \in TempTypes :
        HasBadText(period_elem, ty) =>
            /\ period_result.exc = ""
            /\ IsNone(TempField(period_result, ty))
            /\ TempField(period_result, OtherType(ty))
                 = TempField(parse_forecast_period(WithoutBadText(period_elem, ty)), OtherType(ty))
            /\ period_result.start_date
                 = parse_forecast_period(WithoutBadText(period_elem, ty)).start_date

\* C3 amended: an element of a temperature type with a text that is no
\* integer is ignored: nothing is raised, the result is the one of the period
\* without that element, and the temperature is absent (not zero) unless
\* another element of the same type in the period has an integer text.
C3_BadTextIgnored ==
    Parsed =>
        /\ period_result.exc = ""
        /\ \A ty \in TempTypes :
              HasBadText(period_elem, ty) =>
                  /\ SameAsWithout(ty)
                  /\ ~HasGoodText(period_elem, ty) =>
                        IsNone(TempField(period_result, ty))

\* C3 witness: a period whose maximum has a non-numeric text and whose
\* minimum has no text, parsed to no temperature, with its date.
C3_Witness ==
    /\ Parsed
    /\ HasBadText(period_elem, "air_temperature_maximum")
    /\ \E i \in DOMAIN period_elem.children :
          OfType(period_elem.children[i], "air_temperature_minimum")
          /\ IsNone(period_elem.children[i].text)
    /\ IsNone(period_result.max_temp)
    /\ IsNone(period_result.min_temp)
    /\ period_result.start_date = StrV("2026-01-08")

(***************************************************************************)
(* Claims about parse_forecast.                                            *)
(***************************************************************************)
ForecastParsed == ~IsNone(forecast)

\* Today's "now" sub-record, when today's entry has a non-empty one.
HasNow ==
    /\ Len(forecast_data) > 0
    /\ "now" \in DOMAIN forecast_data[1].v
    /\ forecast_data[1].v["now"].t = "dict"
    /\ DOMAIN forecast_data[1].v["now"].v # {}

Now == forecast_data[1].v["now"].v

NowLabel(l) == "now_label" \in DOMAIN Now /\ Now["now_label"] = StrV(l)

\* C4: with a "now" sub-record labelled "Max", today_max is its temp_now and
\* today_min its temp_later; labelled "Min", today_min is its temp_now and
\* today_max its temp_later; the entry's direct temp_max / temp_min do not
\* matter for a reading the sub-record supplies.
C4_NowOverride ==
    (ForecastParsed /\ HasNow) =>
        /\ NowLabel("Max") =>
              /\ "temp_now" \in DOMAIN Now => forecast.today_max = Now["temp_now"]
              /\ "temp_later" \in DOMAIN Now => forecast.today_min = Now["temp_later"]
        /\ NowLabel("Min") =>
              /\ "temp_now" \in DOMAIN Now => forecast.today_min = Now["temp_now"]
              /\ "temp_later" \in DOMAIN Now => forecast.today_max = Now["temp_later"]

\* C4 witness: a night entry (label "Min", temp_now 18, temp_later 12) whose
\* direct fields are temp_max 30 and temp_min 5 gives today_min 18 and
\* today_max 12.
C4_Witness ==
    /\ ForecastParsed /\ HasNow /\ NowLabel("Min")
    /\ DictGet(forecast_data[1], "temp_max", None) = IntV(30)
    /\ DictGet(forecast_data[1], "temp_min", None) = IntV(5)
    /\ forecast.today_min = IntV(18)
    /\ forecast.today_max = IntV(12)

\* The rain_range_mm string of the bounds (lower_range, upper_range) of
\* today's rain amount, as the tests expect it.
RainRange(entries) ==
    LET today == IF Len(entries) > 0 THEN entries[1] ELSE DictV(<<>>)
        amount == DictGet(DictGet(today, "rain", DictV(<<>>)), "amount", DictV(<<>>))
        lower == DictGet(amount, "lower_range", None)
        upper == DictGet(amount, "upper_range", None)
    IN  IF lower.t # "int" \/ upper.t # "int" THEN ""
        ELSE IF lower.v = 0 /\ upper.v = 0 THEN "0"
        ELSE ToString(lower.v) \o "-" \o ToString(upper.v)

\* C5: the record parse_forecast returns has a rain_range_mm string: "0" for
\* the bounds (0, 0), "lower-upper" for other bounds, "" without bounds.
C5_RainRangeString ==
    (ForecastParsed /\ Len(forecast_data) > 0) =>
        /\ "rain_range_mm" \in DOMAIN forecast
        /\ forecast.rain_range_mm = StrV(RainRange(forecast_data))

(***************************************************************************)
(* Claims about search_location and fetch_daily_forecast.                  *)
(***************************************************************************)
Searched == ~IsNone(outcome) /\ call.fn = "search_location"
Fetched == ~IsNone(outcome) /\ call.fn = "fetch_daily_forecast"

\* C6: search_location with a name of fewer than 3 characters returns None
\* and sends no request, whatever the network would have answered.
C6_ShortNameNoRequest ==
    (Searched /\ Len(call.arg) < 3) =>
        /\ IsNone(outcome.ret)
        /\ outcome.requests = <<>>
        /\ outcome.exc = ""

\* C6 witness: the 2-character name "AB" searched while the network would
\* have answered with results: None is returned and no request is sent.
C6_Witness ==
    /\ Searched /\ call.arg = "AB"
    /\ response.exc = "" /\ Truthy(DictGet(response.v, "data", None))
    /\ IsNone(outcome.ret) /\ outcome.requests = <<>>

\* The results of the response of a search that succeeded.
Results ==
    IF response.exc = "" /\ "data" \in DOMAIN response.v.v
       /\ response.v.v["data"].t = "list"
    THEN response.v.v["data"].v ELSE <<>>

NameOf(loc) == IF "name" \in DOMAIN loc.v THEN loc.v["name"].v ELSE ""

ExactMatches == {i \in DOMAIN Results : Lower(NameOf(Results[i])) = Lower(call.arg)}

\* C7: for a name of at least 3 characters and a response with a list of
\* results, search_location returns the first result whose name is the
\* name searched, case ignored, if there is one; else the first result; else
\* None when the list is empty.
C7_ExactMatchPreferred ==
    (Searched /\ Len(call.arg) >= 3 /\ response.exc = "") =>
        /\ outcome.exc = ""
        /\ outcome.requests = <<SearchRequest(call.arg)>>
        /\ outcome.ret =
              IF ExactMatches # {} THEN Results[Least(ExactMatches)]
              ELSE IF Len(Results) > 0 THEN Results[1]
              ELSE None

\* C7 witness: "Sydney" searched, "Sydney CBD" returned first and "SYDNEY"
\* second: the second result is chosen.
C7_Witness ==
    /\ Searched /\ call.arg = "Sydney"
    /\ Len(Results) = 2
    /\ NameOf(Results[1]) = "Sydney CBD" /\ NameOf(Results[2]) = "SYDNEY"
    /\ outcome.ret = Results[2]

\* C8: a transport failure of the request is caught: search_location returns
\* None and fetch_daily_forecast returns an empty list, nothing is raised,
\* and a diagnostic is logged.
C8_FailureGivesNoData ==
    (~IsNone(outcome) /\ outcome.requests # <<>> /\ response.exc \in TransportErrors) =>
        /\ outcome.exc = ""
        /\ Len(outcome.stderr) = 1
        /\ Searched => IsNone(outcome.ret)
        /\ Fetched => outcome.ret = ListV(<<>>)

(***************************************************************************)
(* Claims about the API write_csv.                                         *)
(***************************************************************************)
Written == ~IsNone(output) /\ pc \in {"rows", "returned"}

\* C10: every data row write_csv writes has as many columns as the header
\* row, whatever the number of daily forecasts of its record.
C10_RowWidthIsHeaderWidth ==
    Written => \A i \in 2..Len(output.v) : Len(output.v[i]) = Len(output.v[1])

\* C10 witness: write_csv has returned after a record with more daily
\* forecasts than the header has days and a record with none; the header and
\* both rows have 31 columns and the slots of the record without forecasts
\* are empty.
C10_Witness ==
    /\ pc = "returned" /\ count = 2
    /\ Len(output.v) = 3
    /\ Len(output.v[1]) = 31 /\ Len(output.v[2]) = 31 /\ Len(output.v[3]) = 31
    /\ output.v[2][31] = "22"
    /\ \A j \in 11..31 : output.v[3][j] = ""

(***************************************************************************)
(* Claims about the batch.                                                 *)
(***************************************************************************)
Halted == pc \in {"exit", "crashed"}

Warnings == {i \in DOMAIN stderr : Prefix(stderr[i], 11) = "  Warning: "}

\* C9: a name that is not found, whose result has no geohash or that has no
\* forecast data gives a warning and no row, and the batch goes on to the
\* next name: when the run ends, every name has been processed.
C9_BatchProcessesEveryName ==
    /\ pc = "fetch_forecasts" => count + Cardinality(Warnings) = idx - 1
    /\ (Halted /\ ~IsNone(locations_file)) => idx = Len(location_names) + 1

(***************************************************************************)
(* Claims about both CSV writers.                                          *)
(***************************************************************************)
\* The text a field must show: nothing for an absent value, the value's own
\* text for a present one.
Shown(x) ==
    IF x.t = "None" THEN ""
    ELSE IF x.t = "int" THEN ToString(x.v)
    ELSE x.v

LastRow(file) == file.v[Len(file.v)]

ApiRowShows(f, row) ==
    /\ row[5] = Shown(f.today_min) /\ row[6] = Shown(f.today_max)
    /\ row[7] = Shown(f.fire_danger)
    /\ row[8] = Shown(f.rain_min_mm) /\ row[9] = Shown(f.rain_max_mm)
    /\ row[10] = Shown(f.rain_chance)
    /\ \A i \in 1..Min2(Len(f.daily_forecasts), RowDays) :
          /\ row[10 + 3 * (i - 1) + 1] = Shown(f.daily_forecasts[i].date)
          /\ row[10 + 3 * (i - 1) + 2] = Shown(f.daily_forecasts[i].temp_min)
          /\ row[10 + 3 * (i - 1) + 3] = Shown(f.daily_forecasts[i].temp_max)

BomRowShows(f, row) ==
    /\ row[3] = Shown(f.min_temp) /\ row[4] = Shown(f.min_temp_date)
    /\ row[5] = Shown(f.max_temp) /\ row[6] = Shown(f.max_temp_date)

\* C11: in both CSV writers the row written for a record shows every absent
\* field (None) as the empty string and every present field, the number 0
\* included, as its own value.
C11_AbsentIsEmptyPresentIsItself ==
    [][/\ CsvWriteRow => ApiRowShows(Head(csv_forecasts), LastRow(output'))
       /\ BomCsvWriteRow => BomRowShows(Head(csv_forecasts), LastRow(output'))]_vars

\* C11 witness: the API writer has written the record whose today_min is None
\* and whose today_max is 0 (cells "" and "0"), with no daily minimum.
C11_Witness ==
    /\ pc = "returned" /\ count = 1
    /\ output.v[2][1] = "Test"
    /\ output.v[2][5] = "" /\ output.v[2][6] = "0"
    /\ output.v[2][12] = "" /\ output.v[2][13] = "0"

(***************************************************************************)
(* Claims about main and the order of the rows.                            *)
(***************************************************************************)
\* C12: main ends with a nonzero status when locations.txt is absent, having
\* sent no request and left site/forecast.csv as it was (not created, not
\* overwritten); when the file exists main ends with status zero, whatever
\* fails for the locations.
C12_ExitStatus ==
    /\ IsNone(locations_file) =>
          /\ requests = <<>>
          /\ output \in {None, StaleOutput}
          /\ Halted => exit_code = IntV(1)
    /\ (Halted /\ ~IsNone(locations_file)) => exit_code = IntV(0)

Opened == pc \in {"fetch_forecasts", "fetch_daily_forecast", "exit", "crashed"}
             /\ ~IsNone(locations_file)

\* C13: the header is written first; afterwards a step either leaves the
\* file as it is or appends one row, the row of the name being processed
\* (the location found for it), and the names are taken in input order; so
\* no failure removes, reorders or alters a row already written.
C13_RowsAppendInInputOrder ==
    [][/\ idx' >= idx
       /\ pc = "write_csv" =>
             Len(output'.v) = 1 /\ output'.v[1][1] = "location" /\ count' = 0
       /\ Opened =>
             \/ output' = output /\ count' = count
             \/ /\ pc = "fetch_daily_forecast" /\ pc' = "fetch_forecasts"
                /\ idx' = idx + 1 /\ count' = count + 1
                /\ Len(output'.v) = Len(output.v) + 1
                /\ SubSeq(output'.v, 1, Len(output.v)) = output.v
                /\ LastRow(output')[1] = found.v["name"].v
                /\ LastRow(output')[4] = found.v["geohash"].v]_vars

\* C13 witness: the names Perth and Sydney were both fetched and their rows
\* follow the header in that order (Perth resolves to the first result,
\* Sydney to its exact match), and the run then ended.
C13_Witness ==
    /\ pc = "exit" /\ location_names = <<"Perth", "Sydney">>
    /\ count = 2 /\ Len(output.v) = 3
    /\ output.v[1][1] = "location"
    /\ output.v[2][1] = "Sydney CBD" /\ output.v[3][1] = "Sydney"

(***************************************************************************)
(* Further claims about parse_forecast.                                    *)
(***************************************************************************)
\* C14: of n >= 1 daily entries, daily_forecasts holds the n - 1 entries that
\* follow today's (entry i + 1 of the source at place i), today's entry not
\* among them; of no entries, none.
C14_FollowingDaysOnly ==
    ForecastParsed =>
        /\ Len(forecast.daily_forecasts) =
              (IF Len(forecast_data) >= 1 THEN Len(forecast_data) - 1 ELSE 0)
        /\ \A i \in 1..Len(forecast.daily_forecasts) :
              i + 1 <= Len(forecast_data) =>
                 /\ forecast.daily_forecasts[i].date =
                       StrV(Prefix(DictGet(forecast_data[i + 1], "date", StrV("")).v, 10))
                 /\ forecast.daily_forecasts[i].temp_min =
                       DictGet(forecast_data[i + 1], "temp_min", None)
                 /\ forecast.daily_forecasts[i].temp_max =
                       DictGet(forecast_data[i + 1], "temp_max", None)

\* The reading of the "now" sub-record that line 121-125 take for today_max
\* and for today_min: temp_now / temp_later under the label "Max", the
\* reverse under any other label.  Absent when the key is missing.
NowReadingFor(field) ==
    LET key == IF NowLabel("Max")
               THEN (IF field = "temp_max" THEN "temp_now" ELSE "temp_later")
               ELSE (IF field = "temp_max" THEN "temp_later" ELSE "temp_now")
    IN  IF key \in DOMAIN Now THEN Now[key] ELSE Absent

NoReading(x) == x.t \in {"absent", "None"}

\* C19: when today's "now" sub-record is absent or empty, or its reading for
\* a temperature is missing or null, today_max / today_min is the entry's
\* direct temp_max / temp_min.
C19_NowNeverErasesDirect ==
    (ForecastParsed /\ Len(forecast_data) > 0) =>
        /\ ~HasNow =>
              /\ forecast.today_max = DictGet(forecast_data[1], "temp_max", None)
              /\ forecast.today_min = DictGet(forecast_data[1], "temp_min", None)
        /\ (HasNow /\ NoReading(NowReadingFor("temp_max"))) =>
              forecast.today_max = DictGet(forecast_data[1], "temp_max", None)
        /\ (HasNow /\ NoReading(NowReadingFor("temp_min"))) =>
              forecast.today_min = DictGet(forecast_data[1], "temp_min", None)

(***************************************************************************)
(* Claims about read_locations.                                            *)
(***************************************************************************)
\* t is line without its surrounding whitespace.
IsTrimOf(t, line) ==
    \E a \in 1..(Len(line) + 1), b \in 0..Len(line) :
        /\ t = SubSeq(line, a, b)
        /\ \A k \in 1..(a - 1) : IsSpace(Char(line, k))
        /\ \A k \in (b + 1)..Len(line) : IsSpace(Char(line, k))
        /\ t = "" \/ (~IsSpace(Char(t, 1)) /\ ~IsSpace(Char(t, Len(t))))

Blank(line) == \A k \in 1..Len(line) : IsSpace(Char(line, k))

\* The places of the lines that are not blank, in file order.
NonBlank(ls) == SelectSeq([i \in 1..Len(ls) |-> i], LAMBDA i : ~Blank(ls[i]))

\* names is what the lines ls must give.
NamesOfLines(names, ls) ==
    /\ Len(names) = Len(NonBlank(ls))
    /\ \A j \in 1..Len(names) : IsTrimOf(names[j], ls[NonBlank(ls)[j]])

\* The text is the lines ls, the last one with or without its line end.
TextOfLines(text, ls) ==
    \/ text = JoinLines(ls)
    \/ ls # <<>> /\ text = Prefix(JoinLines(ls), Len(JoinLines(ls)) - 1)

LocationsRead == ~IsNone(locations_file) /\ pc # "main"

\* C15: read_locations returns the lines of the file that are not empty or
\* whitespace-only, in file order, each without its surrounding whitespace;
\* no name is empty or begins or ends with whitespace.
C15_ReadLocations ==
    LocationsRead =>
        /\ \A j \in 1..Len(location_names) :
              /\ location_names[j] # ""
              /\ ~IsSpace(Char(location_names[j], 1))
              /\ ~IsSpace(Char(location_names[j], Len(location_names[j])))
        /\ \A ls \in SeqsUpTo(LinePool, MaxLines) :
              TextOfLines(locations_file.v, ls) => NamesOfLines(location_names, ls)

\* C15 witness: a whitespace-only line followed by a padded name, the last
\* line without its line end, gives the one name "Perth".
C15_Witness ==
    /\ LocationsRead
    /\ locations_file.v = " \t\n  Perth "
    /\ location_names = <<"Perth">>

(***************************************************************************)
(* Further claims about parse_bom_xml.                                     *)
(***************************************************************************)
\* The first-wins scan of every period, without the early stop.
RECURSIVE FullScan(_, _, _)
FullScan(periods, i, st) ==
    IF i > Len(periods) THEN st
    ELSE FullScan(periods, i + 1, ScanStep(st, periods[i]))

FullScanArea(area) ==
    FullScan(FindAll(area, "forecast-period"), 1,
             [nearest_min |-> None, nearest_min_date |-> None,
              nearest_max |-> None, nearest_max_date |-> None, iters |-> 0])

Larger(a, b) == IF a >= b THEN a ELSE b

\* The number of periods the scan of an area has to examine.
PeriodsNeeded(area) ==
    IF DefinesMin(area) # {} /\ DefinesMax(area) # {}
    THEN Larger(Least(DefinesMin(area)), Least(DefinesMax(area)))
    ELSE Len(FindAll(area, "forecast-period"))

\* C16: the scan of an area stops at the first period after which both a
\* minimum and a maximum are found, and runs to the last period when one of
\* them is never supplied; the record is the one the scan of all the periods
\* gives.
C16_EarlyStopChangesNothing ==
    \A k \in DOMAIN forecasts :
        k <= Len(AreasSeen) =>
            /\ ScanArea(AreasSeen[k]).iters = PeriodsNeeded(AreasSeen[k])
            /\ forecasts[k].min_temp = FullScanArea(AreasSeen[k]).nearest_min
            /\ forecasts[k].min_temp_date = FullScanArea(AreasSeen[k]).nearest_min_date
            /\ forecasts[k].max_temp = FullScanArea(AreasSeen[k]).nearest_max
            /\ forecasts[k].max_temp_date = FullScanArea(AreasSeen[k]).nearest_max_date

\* C16 witness: an area of three periods whose second period completes the
\* pair: the scan stops after two periods, and the third period, which
\* defines a minimum of its own (19), does not show in the record.
C16_Witness ==
    /\ context = Len(Events)
    /\ \E k \in DOMAIN forecasts :
          /\ FindAll(AreasSeen[k], "forecast-period") = <<PMax1, PBoth2, PMin3>>
          /\ ScanArea(AreasSeen[k]).iters = 2
          /\ forecasts[k].min_temp = IntV(21) /\ forecasts[k].max_temp = IntV(33)

NoTemps(area) == DefinesMin(area) = {} /\ DefinesMax(area) = {}

\* C18: the records yielded so far are those of the areas of type "location"
\* read so far, one each and in document order; the record of an area whose
\* periods supply no temperature has no temperature and no date.
C18_OneRecordPerLocationArea ==
    /\ Len(forecasts) = Len(AreasSeen)
    /\ \A k \in DOMAIN forecasts :
          k <= Len(AreasSeen) =>
             /\ forecasts[k].aac = ElemGetOr(AreasSeen[k], "aac", StrV(""))
             /\ forecasts[k].description = ElemGetOr(AreasSeen[k], "description", StrV(""))
             /\ NoTemps(AreasSeen[k]) =>
                   /\ IsNone(forecasts[k].min_temp) /\ IsNone(forecasts[k].min_temp_date)
                   /\ IsNone(forecasts[k].max_temp) /\ IsNone(forecasts[k].max_temp_date)

\* C18 witness: a document of two location areas, the first without any
\* temperature, is consumed: two records in document order, the first with
\* nothing but its codes.
C18_Witness ==
    /\ context = Len(Events)
    /\ Len(forecasts) = 2
    /\ forecasts[1].aac = StrV("NSW_PT999") /\ NoTemps(AreasSeen[1])
    /\ IsNone(forecasts[1].min_temp) /\ IsNone(forecasts[1].max_temp_date)
    /\ forecasts[2].aac = StrV("NSW_PT131") /\ forecasts[2].max_temp = IntV(33)

(***************************************************************************)
(* Claims about timeouts.                                                  *)
(***************************************************************************)
SearchesSent == {i \in DOMAIN requests : requests[i] = SearchRequest(requests[i].search)}

\* C17: a timeout of a request, while connecting or while the response is
\* read, costs its location only: the run is not ended by it, no request is
\* sent a second time (at most one search for each name begun, at most one
\* forecast request after each search), and the location gives a warning
\* and no row.
C17_TimeoutCostsOneLocation ==
    /\ pc # "crashed"
    /\ Cardinality(SearchesSent) <= idx
    /\ Len(requests) <= 2 * Cardinality(SearchesSent)
    /\ Halted => Len(stderr) >= 1 /\ Prefix(stderr[Len(stderr)], 10) # "Traceback "

====
